---- MODULE Spec2Model ----
(***************************************************************************)
(* Event-driven airport stand allocation (model/airport_model.py and       *)
(* agents/aircraft.py): a priority queue of (time, kind, aircraft_id)      *)
(* events, a minute-stepped driver loop, greedy PLB / REMOTE allocation    *)
(* and the two result streams (per-aircraft, per-minute).                  *)
(***************************************************************************)
EXTENDS Integers, Sequences, FiniteSets, TLC

(* ---- bounds of the explored input space ---- *)
MaxAircraft == 3
MaxArrival == 3
MaxTurnaround == 2
MaxPlb == 2
MaxHorizon == 4
MaxRawRows == 2
MaxRawIds == 2
MaxDupRows == 3
MaxDupArrival == 2
MaxDupTurnaround == 1

VARIABLES
    aircraft_data,          \* the input table (rows in DataFrame order)
    plb_total,
    plb_available,
    simulation_duration,
    current_time,
    event_queue,            \* the heap, kept as the sorted sequence of its tuples
    parked_aircraft,
    aircraft_by_id,
    aircraft_results,
    model_reporters_data,
    minute_results,
    pc                      \* "running" | "completed" | "error" (uncaught KeyError)

vars == <<aircraft_data, plb_total, plb_available, simulation_duration,
          current_time, event_queue, parked_aircraft, aircraft_by_id,
          aircraft_results, model_reporters_data, minute_results, pc>>

None == "None"

(* ---- Python ordering of the event tuples ---- *)

\* code points of the two event labels, as str comparison sees them
KindChars(kind) ==
    IF kind = "ARRIVAL" THEN <<65, 82, 82, 73, 86, 65, 76>>
    ELSE <<68, 69, 80, 65, 82, 84, 85, 82, 69>>

RECURSIVE SeqLess(_, _)
\* lexicographic < on code-point sequences (str.__lt__)
SeqLess(s, t) ==
    IF t = <<>> THEN FALSE
    ELSE IF s = <<>> THEN TRUE
    ELSE IF s[1] # t[1] THEN s[1] < t[1]
    ELSE SeqLess(Tail(s), Tail(t))

StrLess_Reversed(k1, k2) == SeqLess(KindChars(k2), KindChars(k1))
StrLess(k1, k2) == SeqLess(KindChars(k1), KindChars(k2))

\* tuple.__lt__ on (time, event_type, aircraft_id)
TupleLess(e1, e2) ==
    \/ e1[1] < e2[1]
    \/ /\ e1[1] = e2[1]
       /\ \/ StrLess(e1[2], e2[2])
          \/ e1[2] = e2[2] /\ e1[3] < e2[3]

\* heapq.heappush: the queue is kept as the sorted list of its tuples, so
\* that event_queue[1] is the heap's minimum, as heap[0] is
HeapPush(q, e) ==
    LET k == Cardinality({i \in 1..Len(q) : ~TupleLess(e, q[i])})
    IN  SubSeq(q, 1, k) \o <<e>> \o SubSeq(q, k + 1, Len(q))

_schedule_event_Twice(q, time, event_type, aircraft_id) ==
    HeapPush(HeapPush(q, <<time, event_type, aircraft_id>>),
             <<time, event_type, aircraft_id>>)
_schedule_event(q, time, event_type, aircraft_id) ==
    HeapPush(q, <<time, event_type, aircraft_id>>)

(* ---- Aircraft (agents/aircraft.py) ---- *)

Aircraft(unique_id, arrival_time, turnaround_time) ==
    [aircraft_id |-> unique_id,
     arrival_time |-> arrival_time,
     turnaround_time |-> turnaround_time,
     departure_time |-> arrival_time + turnaround_time,
     assigned_stand_type |-> None,
     state |-> "scheduled"]

assign_stand_KeepsState(aircraft, stand_type) ==
    [aircraft EXCEPT !.assigned_stand_type = stand_type]
assign_stand(aircraft, stand_type) ==
    [aircraft EXCEPT !.assigned_stand_type = stand_type, !.state = "parked"]

depart_ReleasesStand(aircraft) ==
    [aircraft EXCEPT !.state = "departed", !.assigned_stand_type = None]
depart(aircraft) ==
    [aircraft EXCEPT !.state = "departed"]

(* ---- construction: AirportModel.__init__ / _initialize_aircraft ---- *)

RECURSIVE SeedArrivals(_, _)
\* the ARRIVAL events pushed for rows 1..k of the table
SeedArrivals(rows, k) ==
    IF k = 0 THEN <<>>
    ELSE _schedule_event(SeedArrivals(rows, k - 1),
                         rows[k].arrival_time, "ARRIVAL", rows[k].aircraft_id)

\* aircraft_by_id[...] = aircraft: a later row with the same id overwrites
IndexById(rows) ==
    [id \in {rows[i].aircraft_id : i \in DOMAIN rows} |->
        LET last == CHOOSE i \in DOMAIN rows :
                        /\ rows[i].aircraft_id = id
                        /\ \A j \in DOMAIN rows :
                               rows[j].aircraft_id = id => j <= i
        IN  Aircraft(id, rows[last].arrival_time, rows[last].turnaround_time)]

Construct(rows, plb_stands, duration) ==
    /\ aircraft_data = rows
    /\ plb_total = plb_stands
    /\ plb_available = plb_stands
    /\ simulation_duration = duration
    /\ current_time = 0
    /\ event_queue = SeedArrivals(rows, Len(rows))
    /\ parked_aircraft = {}
    /\ aircraft_by_id = IndexById(rows)
    /\ aircraft_results = <<>>
    /\ model_reporters_data = <<>>
    /\ minute_results = <<>>
    /\ pc = "running"

(* ---- input tables ---- *)

\* well-formed tables: unique ids, arrival_time >= 0, turnaround_time > 0
WellFormedTables ==
    UNION {
      {[i \in 1..n |-> [aircraft_id |-> i,
                        arrival_time |-> f[i][1],
                        turnaround_time |-> f[i][2]]] :
          f \in [1..n -> (0..MaxArrival) \X (1..MaxTurnaround)]} :
      n \in 0..MaxAircraft}

\* any table the constructor accepts: ids may repeat, arrival_time may be
\* negative, turnaround_time may be 0
RawTables ==
    UNION {
      [1..n -> [aircraft_id : 1..MaxRawIds,
                arrival_time : (-1)..MaxArrival,
                turnaround_time : 0..MaxTurnaround]] :
      n \in 0..MaxRawRows}

Init ==
    \E rows \in WellFormedTables, p \in 0..MaxPlb, d \in 0..MaxHorizon :
        Construct(rows, p, d)

\* unique ids and arrival_time >= 0, turnaround_time 0 allowed: an aircraft
\* that departs at the minute it arrives
ZeroTurnaroundTables ==
    UNION {
      {[i \in 1..n |-> [aircraft_id |-> i,
                        arrival_time |-> f[i][1],
                        turnaround_time |-> f[i][2]]] :
          f \in [1..n -> (0..MaxArrival) \X (0..MaxTurnaround)]} :
      n \in 0..MaxAircraft}

\* tables in which an identifier may occur in several rows
DuplicateIdTables ==
    UNION {
      [1..n -> [aircraft_id : 1..MaxRawIds,
                arrival_time : 0..MaxDupArrival,
                turnaround_time : 0..MaxDupTurnaround]] :
      n \in 0..MaxDupRows}

InitZero ==
    \E rows \in ZeroTurnaroundTables, p \in 0..MaxPlb :
        Construct(rows, p, MaxHorizon)

InitDup ==
    \E rows \in DuplicateIdTables, p \in 0..MaxPlb :
        Construct(rows, p, MaxHorizon)

InitRaw ==
    \E rows \in RawTables, p \in 0..MaxPlb :
        Construct(rows, p, MaxHorizon)

\* the concrete scenario of the specification's testable properties
ScenarioRows ==
    <<[aircraft_id |-> 1, arrival_time |-> 0, turnaround_time |-> 10],
      [aircraft_id |-> 2, arrival_time |-> 0, turnaround_time |-> 10],
      [aircraft_id |-> 3, arrival_time |-> 20, turnaround_time |-> 10]>>

InitScenario == Construct(ScenarioRows, 1, 100)

(* ---- the driver loop ---- *)

\* run_simulation: while self.current_time <= self.simulation_duration
LoopCond_Exclusive(t, duration) == t < duration
LoopCond(t, duration) == t <= duration

\* _process_events_at_current_time: while queue and queue[0][0] == current_time
HeadDue_Pending(q, t) == q # <<>>
HeadDue_Late(q, t) == q # <<>> /\ q[1][1] < t
HeadDue_Overdue(q, t) == q # <<>> /\ q[1][1] <= t
HeadDue(q, t) == q # <<>> /\ q[1][1] = t

\* greedy choice of _process_arrival
StandFor_KeepsOneFree(available) == IF available > 1 THEN "PLB" ELSE "REMOTE"
StandFor_NonNegative(available) == IF available >= 0 THEN "PLB" ELSE "REMOTE"
StandFor(available) == IF available > 0 THEN "PLB" ELSE "REMOTE"

PlbAfterArrival_Unguarded(available) == available - 1
PlbAfterArrival(available) ==
    IF available > 0 THEN available - 1 ELSE available

\* _process_departure: if aircraft.assigned_stand_type == 'PLB': += 1
PlbAfterDeparture_Always(available, stand_type) == available + 1
PlbAfterDeparture_Never(available, stand_type) == available
PlbAfterDeparture(available, stand_type) ==
    IF stand_type = "PLB" THEN available + 1 ELSE available

ParkedAfterDeparture_Keeps(parked, id) == parked
ParkedAfterDeparture(parked, id) == parked \ {id}

\* self.parked_aircraft.remove(aircraft_id) raises KeyError
RemoveRaises_Discard(parked, id) == FALSE
RemoveRaises(parked, id) == id \notin parked

\* self.aircraft_results.append({...})
RecordResult_Upsert(results, row) ==
    IF results = <<>> THEN <<row>>
    ELSE [results EXCEPT ![Len(results)] = row]
RecordResult(results, row) == Append(results, row)

ResultRow(aircraft) ==
    [aircraft_id |-> aircraft.aircraft_id,
     arrival_time |-> aircraft.arrival_time,
     departure_time |-> aircraft.departure_time,
     turnaround_time |-> aircraft.turnaround_time,
     assigned_stand_type |-> aircraft.assigned_stand_type]

ReporterRow_AfterTick(t, total, available, parked, by_id) ==
    [current_time |-> t + 1,
     plb_occupied |-> total - available,
     total_parked |-> Cardinality(parked),
     remote_occupied |->
         Cardinality({a \in parked : by_id[a].assigned_stand_type = "REMOTE"}),
     plb_available |-> available]
ReporterRow(t, total, available, parked, by_id) ==
    [current_time |-> t,
     plb_occupied |-> total - available,
     total_parked |-> Cardinality(parked),
     remote_occupied |->
         Cardinality({a \in parked : by_id[a].assigned_stand_type = "REMOTE"}),
     plb_available |-> available]

\* pop the head, an ARRIVAL due now, and apply _process_arrival
ProcessArrival ==
    /\ pc = "running"
    /\ LoopCond(current_time, simulation_duration)
    /\ HeadDue(event_queue, current_time)
    /\ event_queue[1][2] = "ARRIVAL"
    /\ LET aircraft_id == event_queue[1][3]
           aircraft == aircraft_by_id[aircraft_id]
       IN  /\ aircraft_by_id' =
                 [aircraft_by_id EXCEPT
                    ![aircraft_id] = assign_stand(aircraft, StandFor(plb_available))]
           /\ plb_available' = PlbAfterArrival(plb_available)
           /\ parked_aircraft' = parked_aircraft \cup {aircraft_id}
           /\ event_queue' = _schedule_event(Tail(event_queue),
                                 aircraft.departure_time, "DEPARTURE", aircraft_id)
    /\ UNCHANGED <<aircraft_data, plb_total, simulation_duration, current_time,
                   aircraft_results, model_reporters_data, minute_results, pc>>

\* pop the head, a DEPARTURE due now, and apply _process_departure;
\* set.remove of an id that is not parked raises KeyError, which nothing
\* catches: the run stops with the counter and the state already updated
ProcessDeparture ==
    /\ pc = "running"
    /\ LoopCond(current_time, simulation_duration)
    /\ HeadDue(event_queue, current_time)
    /\ event_queue[1][2] = "DEPARTURE"
    /\ LET aircraft_id == event_queue[1][3]
           aircraft == aircraft_by_id[aircraft_id]
       IN  /\ plb_available' =
                 PlbAfterDeparture(plb_available, aircraft.assigned_stand_type)
           /\ aircraft_by_id' =
                 [aircraft_by_id EXCEPT ![aircraft_id] = depart(aircraft)]
           /\ event_queue' = Tail(event_queue)
           /\ IF ~RemoveRaises(parked_aircraft, aircraft_id)
              THEN /\ parked_aircraft' =
                          ParkedAfterDeparture(parked_aircraft, aircraft_id)
                   /\ aircraft_results' =
                          RecordResult(aircraft_results,
                                       ResultRow(depart(aircraft)))
                   /\ pc' = pc
              ELSE /\ pc' = "error"
                   /\ UNCHANGED <<parked_aircraft, aircraft_results>>
    /\ UNCHANGED <<aircraft_data, plb_total, simulation_duration, current_time,
                   model_reporters_data, minute_results>>

\* the rest of step(), once no event is due: append the snapshot, advance
StepRecord ==
    /\ pc = "running"
    /\ LoopCond(current_time, simulation_duration)
    /\ ~HeadDue(event_queue, current_time)
    /\ model_reporters_data' =
          Append(model_reporters_data,
                 ReporterRow(current_time, plb_total, plb_available,
                             parked_aircraft, aircraft_by_id))
    /\ current_time' = current_time + 1
    /\ UNCHANGED <<aircraft_data, plb_total, plb_available, simulation_duration,
                   event_queue, parked_aircraft, aircraft_by_id,
                   aircraft_results, minute_results, pc>>

\* run_simulation after the loop: the tables are returned
RunComplete ==
    /\ pc = "running"
    /\ ~LoopCond(current_time, simulation_duration)
    /\ minute_results' = model_reporters_data
    /\ pc' = "completed"
    /\ UNCHANGED <<aircraft_data, plb_total, plb_available, simulation_duration,
                   current_time, event_queue, parked_aircraft, aircraft_by_id,
                   aircraft_results, model_reporters_data>>

Next ==
    \/ ProcessArrival
    \/ ProcessDeparture
    \/ StepRecord
    \/ RunComplete

Spec == Init /\ [][Next]_vars
SpecRaw == InitRaw /\ [][Next]_vars
SpecZero == InitZero /\ [][Next]_vars
SpecDup == InitDup /\ [][Next]_vars
SpecScenario == InitScenario /\ [][Next]_vars
\* the loop is a single thread that always takes its next step
SpecFair == Init /\ [][Next]_vars /\ WF_vars(Next)

(* ---- what the input table says, independently of the engine ---- *)

DepartureOf(row) == row.arrival_time + row.turnaround_time

\* rows on the ground at minute m: arrival_time <= m < departure_time
OnGround(m) ==
    {i \in DOMAIN aircraft_data :
        aircraft_data[i].arrival_time <= m /\ m < DepartureOf(aircraft_data[i])}

\* every minute up to the last departure of the table
TableMinutes ==
    UNION {0..DepartureOf(aircraft_data[i]) : i \in DOMAIN aircraft_data}

ResultIds == {aircraft_results[k].aircraft_id : k \in DOMAIN aircraft_results}

(* C1: in every state between events and in every per-minute snapshot,    *)
(* 0 <= plb_available <= plb_total, 0 <= plb_occupied <= plb_total and    *)
(* plb_occupied + plb_available = plb_total.                              *)
C1_PlbWithinBounds ==
    /\ 0 <= plb_available /\ plb_available <= plb_total
    /\ \A k \in DOMAIN model_reporters_data :
          LET r == model_reporters_data[k]
          IN  /\ 0 <= r.plb_occupied /\ r.plb_occupied <= plb_total
              /\ 0 <= r.plb_available /\ r.plb_available <= plb_total
              /\ r.plb_occupied + r.plb_available = plb_total

\* the pool was exhausted in a snapshot, an aircraft went to REMOTE and has
\* departed, and the pool is full again
C1_Witness ==
    /\ plb_total > 0
    /\ plb_available = plb_total
    /\ \E k \in DOMAIN model_reporters_data :
          model_reporters_data[k].plb_occupied = plb_total
    /\ \E k \in DOMAIN aircraft_results :
          aircraft_results[k].assigned_stand_type = "REMOTE"

(* C2: the snapshot recorded for minute m has total_parked equal to the   *)
(* number of input aircraft with arrival_time <= m < departure_time.      *)
C2_TotalParkedIsOnGround ==
    \A k \in DOMAIN model_reporters_data :
        model_reporters_data[k].total_parked =
            Cardinality(OnGround(model_reporters_data[k].current_time))

\* two aircraft on the ground in one snapshot, none in a later one
C2_Witness ==
    \E k, l \in DOMAIN model_reporters_data :
        /\ k < l
        /\ model_reporters_data[k].total_parked >= 2
        /\ model_reporters_data[l].total_parked = 0

(* C3: if the PLB stand count is at least the largest number of aircraft  *)
(* with arrival_time <= m < departure_time over all minutes m, then every *)
(* aircraft whose ARRIVAL has been processed is assigned PLB.             *)
C3_EnoughPlbMeansAllPlb ==
    (\A m \in TableMinutes : plb_total >= Cardinality(OnGround(m)))
    => \A id \in DOMAIN aircraft_by_id :
          aircraft_by_id[id].state # "scheduled"
          => aircraft_by_id[id].assigned_stand_type = "PLB"

\* rows whose departure falls within the horizon
DepartsInRun ==
    {i \in DOMAIN aircraft_data :
        DepartureOf(aircraft_data[i]) <= simulation_duration}

RowsOf(id) == {k \in DOMAIN aircraft_results : aircraft_results[k].aircraft_id = id}

(* C4 (as stated): at the end of a run the number of per-aircraft records *)
(* equals the number of input aircraft and every input aircraft appears   *)
(* exactly once in the per-aircraft output.                               *)
C4_EveryAircraftInOutput ==
    pc = "completed"
    => /\ Len(aircraft_results) = Len(aircraft_data)
       /\ \A i \in DOMAIN aircraft_data :
             Cardinality(RowsOf(aircraft_data[i].aircraft_id)) = 1

(* C4 (amended): at the end of a run the number of per-aircraft records   *)
(* equals the number of input aircraft with departure_time <= horizon,    *)
(* each of those appears exactly once and no aircraft appears twice.      *)
C4_DepartedAircraftInOutput ==
    pc = "completed"
    => /\ Len(aircraft_results) = Cardinality(DepartsInRun)
       /\ \A i \in DepartsInRun :
             Cardinality(RowsOf(aircraft_data[i].aircraft_id)) = 1
       /\ \A i \in DOMAIN aircraft_data :
             Cardinality(RowsOf(aircraft_data[i].aircraft_id)) <= 1

\* a completed run with several records, one of an aircraft that departs
\* exactly at the horizon, and an aircraft left out
C4_Witness ==
    /\ pc = "completed"
    /\ Len(aircraft_results) >= 2
    /\ Len(aircraft_results) < Len(aircraft_data)
    /\ \E k \in DOMAIN aircraft_results :
          aircraft_results[k].departure_time = simulation_duration

(* C5: an aircraft with arrival_time <= horizon has its ARRIVAL processed *)
(* (stand assigned, counted as parked) even when departure_time >         *)
(* horizon; then its DEPARTURE stays in the queue, it is PARKED at the    *)
(* end of the run and it is never in the per-aircraft output, which at    *)
(* the end holds exactly the aircraft with departure_time <= horizon.     *)
C5_BeyondHorizonNeverDrained ==
    /\ \A i \in DOMAIN aircraft_data :
          DepartureOf(aircraft_data[i]) > simulation_duration
          => aircraft_data[i].aircraft_id \notin ResultIds
    /\ pc = "completed"
       => /\ \A i \in DOMAIN aircraft_data :
                LET row == aircraft_data[i]
                    id == row.aircraft_id
                IN  /\ row.arrival_time <= simulation_duration
                       => /\ aircraft_by_id[id].state # "scheduled"
                          /\ aircraft_by_id[id].assigned_stand_type
                                 \in {"PLB", "REMOTE"}
                    /\ (row.arrival_time <= simulation_duration
                        /\ DepartureOf(row) > simulation_duration)
                       => /\ aircraft_by_id[id].state = "parked"
                          /\ id \in parked_aircraft
                          /\ \E k \in DOMAIN event_queue :
                                event_queue[k] = <<DepartureOf(row), "DEPARTURE", id>>
          /\ ResultIds = {aircraft_data[i].aircraft_id : i \in DepartsInRun}

\* a completed run with an aircraft that arrived exactly at the horizon and
\* is still parked, next to one that made it into the output
C5_Witness ==
    /\ pc = "completed"
    /\ aircraft_results # <<>>
    /\ \E id \in parked_aircraft :
          /\ aircraft_by_id[id].arrival_time = simulation_duration
          /\ aircraft_by_id[id].assigned_stand_type = "PLB"

(* C6: assigned_stand_type is set exactly once, by the step that applies  *)
(* the aircraft's ARRIVAL, and no later step changes it; a REMOTE         *)
(* aircraft is never promoted to PLB.                                     *)
C6_StandAssignedOnce ==
    [][\A id \in DOMAIN aircraft_by_id :
          LET before == aircraft_by_id[id].assigned_stand_type
              after == aircraft_by_id'[id].assigned_stand_type
          IN  /\ before # None => after = before
              /\ (before = None /\ after # None)
                 => /\ event_queue[1] = <<current_time, "ARRIVAL", id>>
                    /\ aircraft_by_id[id].state = "scheduled"
                    /\ after \in {"PLB", "REMOTE"}
              /\ (event_queue # <<>> /\ event_queue' # event_queue
                  /\ event_queue[1] = <<current_time, "ARRIVAL", id>>)
                 => (before = None /\ after # None)]_vars

\* a REMOTE aircraft is still parked while a PLB stand is free
C6_Witness ==
    \E id \in parked_aircraft :
        /\ aircraft_by_id[id].assigned_stand_type = "REMOTE"
        /\ plb_available > 0

\* duplicate aircraft identifiers or a negative arrival time
Malformed(rows) ==
    \/ \E i, j \in DOMAIN rows : i # j /\ rows[i].aircraft_id = rows[j].aircraft_id
    \/ \E i \in DOMAIN rows : rows[i].arrival_time < 0

(* C7: a table with duplicate identifiers or negative arrival times is    *)
(* rejected at construction, before any simulation step executes: no      *)
(* event is applied, no snapshot or result is produced and the PLB        *)
(* counter is untouched.                                                  *)
C7_MalformedRejectedAtConstruction ==
    Malformed(aircraft_data)
    => /\ current_time = 0
       /\ model_reporters_data = <<>>
       /\ aircraft_results = <<>>
       /\ parked_aircraft = {}
       /\ plb_available = plb_total
       /\ pc = "running"

\* PLB available-count when the current minute's drain began
PlbAtMinuteStart ==
    IF model_reporters_data = <<>> THEN plb_total
    ELSE model_reporters_data[Len(model_reporters_data)].plb_available

(* C8: events due at the same minute are applied in increasing order of   *)
(* (kind, identifier): every ARRIVAL due at t before every DEPARTURE due  *)
(* at t, same-kind events by increasing identifier; so an aircraft        *)
(* arriving at a minute that began with plb_available = 0 is assigned     *)
(* REMOTE even when a PLB aircraft departs at that same minute.           *)
C8_SameMinuteOrder ==
    [][(ProcessArrival \/ ProcessDeparture)
       => LET e == event_queue[1]
          IN  /\ \A id \in DOMAIN aircraft_by_id :
                    LET a == aircraft_by_id[id]
                    IN  /\ (e[2] = "DEPARTURE" /\ a.arrival_time = current_time)
                           => a.state # "scheduled"
                        /\ (e[2] = "ARRIVAL" /\ a.arrival_time = current_time
                            /\ id < e[3])
                           => a.state # "scheduled"
                        /\ (e[2] = "DEPARTURE" /\ a.departure_time = current_time
                            /\ id < e[3])
                           => a.state = "departed"
              /\ (e[2] = "ARRIVAL" /\ PlbAtMinuteStart = 0)
                 => aircraft_by_id'[e[3]].assigned_stand_type = "REMOTE"]_vars

\* an aircraft was sent to REMOTE at the minute the only PLB stand's
\* occupant departed
C8_Witness ==
    /\ plb_total = 1
    /\ \E a, b \in DOMAIN aircraft_by_id :
          /\ aircraft_by_id[a].assigned_stand_type = "PLB"
          /\ aircraft_by_id[a].state = "departed"
          /\ aircraft_by_id[b].assigned_stand_type = "REMOTE"
          /\ aircraft_by_id[b].arrival_time = aircraft_by_id[a].departure_time
          /\ \A c \in DOMAIN aircraft_by_id : c \in {a, b}

SnapshotsAt(m) ==
    {k \in DOMAIN model_reporters_data : model_reporters_data[k].current_time = m}

(* C9: with 1 PLB stand, horizon 100 and A1 (0, 10), A2 (0, 10),          *)
(* A3 (20, 10): A1 -> PLB, A2 -> REMOTE, A3 -> PLB; the snapshot of       *)
(* minute 0 has plb_occupied 1, total_parked 2, remote_occupied 1, that   *)
(* of minute 10 plb_occupied 0, total_parked 0, that of minute 20         *)
(* plb_occupied 1, total_parked 1.                                        *)
C9_Scenario ==
    /\ \A id \in DOMAIN aircraft_by_id :
          aircraft_by_id[id].state # "scheduled"
          => aircraft_by_id[id].assigned_stand_type =
                 (IF id = 2 THEN "REMOTE" ELSE "PLB")
    /\ \A k \in SnapshotsAt(0) :
          /\ model_reporters_data[k].plb_occupied = 1
          /\ model_reporters_data[k].total_parked = 2
          /\ model_reporters_data[k].remote_occupied = 1
    /\ \A k \in SnapshotsAt(10) :
          /\ model_reporters_data[k].plb_occupied = 0
          /\ model_reporters_data[k].total_parked = 0
    /\ \A k \in SnapshotsAt(20) :
          /\ model_reporters_data[k].plb_occupied = 1
          /\ model_reporters_data[k].total_parked = 1
    /\ pc = "completed"
       => /\ SnapshotsAt(0) # {} /\ SnapshotsAt(10) # {} /\ SnapshotsAt(20) # {}
          /\ \A id \in DOMAIN aircraft_by_id : aircraft_by_id[id].state = "departed"

\* the scenario ran to the end: all three aircraft are in the output
C9_Witness ==
    /\ pc = "completed"
    /\ aircraft_data = ScenarioRows
    /\ SnapshotsAt(20) # {}
    /\ Len(aircraft_results) = 3

(* C10: the run terminates; when it has, step ran horizon+1 times:        *)
(* current_time = horizon+1 and there is exactly one snapshot per minute  *)
(* 0..horizon, in increasing minute order.                                *)
C10_Terminates ==
    /\ <>(pc = "completed")
    /\ [](pc = "completed"
          => /\ current_time = simulation_duration + 1
             /\ Len(model_reporters_data) = simulation_duration + 1
             /\ \A k \in DOMAIN model_reporters_data :
                   model_reporters_data[k].current_time = k - 1
             /\ minute_results = model_reporters_data)

\* a completed run over several minutes in which events were applied
C10_Witness ==
    /\ pc = "completed"
    /\ current_time >= 3
    /\ aircraft_results # <<>>
    /\ Len(minute_results) = current_time

(* C11: greedy policy: the step that applies an ARRIVAL assigns PLB and   *)
(* decrements plb_available by 1 if and only if plb_available > 0 at that *)
(* instant, otherwise assigns REMOTE and leaves plb_available unchanged;  *)
(* in both cases the aircraft is parked in that same step and its         *)
(* DEPARTURE is queued at arrival_time + turnaround_time.                 *)
C11_GreedyArrival ==
    [][ProcessArrival
       => LET id == event_queue[1][3]
              after == aircraft_by_id'[id]
          IN  /\ (plb_available > 0)
                 <=> (after.assigned_stand_type = "PLB"
                      /\ plb_available' = plb_available - 1)
              /\ (plb_available <= 0)
                 <=> (after.assigned_stand_type = "REMOTE"
                      /\ plb_available' = plb_available)
              /\ after.state = "parked"
              /\ id \in parked_aircraft'
              /\ \E k \in DOMAIN event_queue' :
                    event_queue'[k] =
                        <<after.arrival_time + after.turnaround_time,
                          "DEPARTURE", id>>]_vars

\* both branches of the policy were taken: one aircraft holds the last PLB
\* stand and another is parked on REMOTE
C11_Witness ==
    /\ plb_available = 0
    /\ \E a, b \in parked_aircraft :
          /\ aircraft_by_id[a].assigned_stand_type = "PLB"
          /\ aircraft_by_id[b].assigned_stand_type = "REMOTE"

(* C12: with a PLB stand count of 0 every aircraft whose ARRIVAL has been *)
(* processed is assigned REMOTE and plb_occupied is 0 in every snapshot.  *)
C12_NoPlbMeansAllRemote ==
    plb_total = 0
    => /\ \A id \in DOMAIN aircraft_by_id :
             aircraft_by_id[id].state # "scheduled"
             => aircraft_by_id[id].assigned_stand_type = "REMOTE"
       /\ \A k \in DOMAIN model_reporters_data :
             model_reporters_data[k].plb_occupied = 0

\* a run without PLB stands in which aircraft parked and one has departed
C12_Witness ==
    /\ plb_total = 0
    /\ aircraft_results # <<>>
    /\ \E k \in DOMAIN model_reporters_data :
          model_reporters_data[k].remote_occupied >= 2

\* s is t with rows appended at the end
IsPrefix(s, t) ==
    /\ Len(s) <= Len(t)
    /\ \A k \in DOMAIN s : t[k] = s[k]

(* C14: both result streams are append-only and write-once per key: a     *)
(* per-aircraft record is appended only by the step that applies that     *)
(* aircraft's DEPARTURE, at most once per identifier and in processing    *)
(* order (departure_time non-decreasing down the table); a per-minute     *)
(* record is appended once per minute; no step changes or removes a       *)
(* record already appended.                                               *)
C14_AppendOnlyResults ==
    [][/\ IsPrefix(aircraft_results, aircraft_results')
       /\ IsPrefix(model_reporters_data, model_reporters_data')
       /\ aircraft_results' # aircraft_results
          => /\ ProcessDeparture
             /\ Len(aircraft_results') = Len(aircraft_results) + 1
             /\ aircraft_results'[Len(aircraft_results')].aircraft_id
                    = event_queue[1][3]
             /\ aircraft_results'[Len(aircraft_results')].departure_time
                    = current_time
       /\ ProcessDeparture => aircraft_results' # aircraft_results
       /\ \A k, l \in DOMAIN aircraft_results' :
             k < l => /\ aircraft_results'[k].aircraft_id
                             # aircraft_results'[l].aircraft_id
                      /\ aircraft_results'[k].departure_time
                             <= aircraft_results'[l].departure_time
       /\ model_reporters_data' # model_reporters_data
          => /\ StepRecord
             /\ Len(model_reporters_data') = Len(model_reporters_data) + 1
             /\ model_reporters_data'[Len(model_reporters_data')].current_time
                    = current_time
       /\ \A k, l \in DOMAIN model_reporters_data' :
             k < l => model_reporters_data'[k].current_time
                          < model_reporters_data'[l].current_time]_vars

\* records of two aircraft that departed at different minutes, over a run
\* of several snapshots
C14_Witness ==
    /\ Len(model_reporters_data) >= 3
    /\ \E k, l \in DOMAIN aircraft_results :
          aircraft_results[k].departure_time < aircraft_results[l].departure_time

(* C15: plb_available changes only by -1, in the step that applies an     *)
(* ARRIVAL and assigns PLB, and by +1, in the step that applies the       *)
(* DEPARTURE of an aircraft whose stand is PLB; an ARRIVAL assigned       *)
(* REMOTE, the DEPARTURE of a REMOTE aircraft, the snapshot append and    *)
(* the clock increment leave it unchanged.                                *)
C15_PlbDelta ==
    [][/\ plb_available' = plb_available - 1
          <=> (ProcessArrival
               /\ aircraft_by_id'[event_queue[1][3]].assigned_stand_type = "PLB")
       /\ plb_available' = plb_available + 1
          <=> (ProcessDeparture
               /\ aircraft_by_id[event_queue[1][3]].assigned_stand_type = "PLB")
       /\ plb_available' \in {plb_available - 1, plb_available, plb_available + 1}
       /\ (StepRecord \/ RunComplete) => plb_available' = plb_available]_vars

\* a REMOTE aircraft and a PLB aircraft have both departed, and the clock
\* has advanced since
C15_Witness ==
    /\ \E k, l \in DOMAIN aircraft_results :
          /\ aircraft_results[k].assigned_stand_type = "REMOTE"
          /\ aircraft_results[l].assigned_stand_type = "PLB"
    /\ \E k \in DOMAIN model_reporters_data :
          model_reporters_data[k].current_time
              > aircraft_results[Len(aircraft_results)].departure_time

(* C16: in every state between event applications an identifier is in    *)
(* the parked set if and only if that aircraft's state is 'parked'.       *)
C16_ParkedSetIffParked ==
    /\ parked_aircraft \subseteq DOMAIN aircraft_by_id
    /\ \A id \in DOMAIN aircraft_by_id :
          id \in parked_aircraft <=> aircraft_by_id[id].state = "parked"

\* one aircraft still scheduled, one parked, one departed
C16_Witness ==
    \E a, b, c \in DOMAIN aircraft_by_id :
        /\ aircraft_by_id[a].state = "scheduled"
        /\ aircraft_by_id[b].state = "parked" /\ b \in parked_aircraft
        /\ aircraft_by_id[c].state = "departed" /\ c \notin parked_aircraft

(* C17: no event is ever scheduled with a time earlier than the current   *)
(* simulated time, and each snapshot reflects the state after every event *)
(* due at its minute: when the snapshot of minute m is appended the queue *)
(* holds no event with time <= m, including a DEPARTURE pushed during the *)
(* drain of minute m itself (turnaround 0).                               *)
C17_NothingInThePast ==
    [][/\ \A k \in DOMAIN event_queue' : event_queue'[k][1] >= current_time
       /\ StepRecord
          => /\ \A k \in DOMAIN event_queue : event_queue[k][1] > current_time
             /\ \A id \in DOMAIN aircraft_by_id :
                   LET a == aircraft_by_id[id]
                   IN  /\ a.arrival_time <= current_time
                          => a.state # "scheduled"
                       /\ a.departure_time <= current_time
                          => a.state = "departed"]_vars

\* an aircraft with turnaround 0 arrived and departed within one minute's
\* drain and the snapshot of that minute was taken after both
C17_Witness ==
    \E k \in DOMAIN aircraft_results :
        /\ aircraft_results[k].turnaround_time = 0
        /\ \E l \in DOMAIN model_reporters_data :
              /\ model_reporters_data[l].current_time
                     = aircraft_results[k].arrival_time
              /\ model_reporters_data[l].total_parked = 1

\* queued events of one kind for one aircraft
Queued(kind, id) ==
    {k \in DOMAIN event_queue : event_queue[k][2] = kind /\ event_queue[k][3] = id}

InState(st) == {id \in DOMAIN aircraft_by_id : aircraft_by_id[id].state = st}

\* events scheduled so far: those still queued, the ARRIVALs already
\* applied and the DEPARTUREs already applied
EverScheduled ==
    Len(event_queue)
    + Cardinality(InState("parked")) + 2 * Cardinality(InState("departed"))

(* C18: each aircraft contributes exactly one ARRIVAL event, seeded at    *)
(* construction, and exactly one DEPARTURE event once that ARRIVAL has    *)
(* been processed; a DEPARTURE is never queued or processed for an        *)
(* aircraft whose ARRIVAL has not been processed, and at most             *)
(* 2 x (number of aircraft) events are ever scheduled.                    *)
C18_OneArrivalOneDeparture ==
    /\ \A i \in DOMAIN aircraft_data :
          LET id == aircraft_data[i].aircraft_id
              a == aircraft_by_id[id]
              nArr == Cardinality(Queued("ARRIVAL", id))
              nDep == Cardinality(Queued("DEPARTURE", id))
          IN  /\ a.state = "scheduled" => nArr = 1 /\ nDep = 0
              /\ a.state = "parked" => nArr = 0 /\ nDep = 1
              /\ a.state = "departed" => nArr = 0 /\ nDep = 0
              /\ \A k \in Queued("ARRIVAL", id) :
                    event_queue[k][1] = aircraft_data[i].arrival_time
              /\ \A k \in Queued("DEPARTURE", id) :
                    event_queue[k][1] = DepartureOf(aircraft_data[i])
    /\ Len(event_queue) <= Len(aircraft_data)
    /\ EverScheduled <= 2 * Len(aircraft_data)

\* every aircraft of a table of several has arrived and departed: 2 x N
\* events were scheduled
C18_Witness ==
    /\ Len(aircraft_data) >= 2
    /\ event_queue = <<>>
    /\ EverScheduled = 2 * Len(aircraft_data)

(* C19: an aircraft's state only moves scheduled -> parked -> departed:   *)
(* an ARRIVAL is applied only to a scheduled aircraft, a DEPARTURE only   *)
(* to a parked one, no state is skipped or revisited, and an aircraft     *)
(* with arrival_time > horizon stays scheduled with its stand class unset *)
(* for the whole run.                                                     *)
C19_LifecycleForward ==
    [][/\ ProcessArrival
          => aircraft_by_id[event_queue[1][3]].state = "scheduled"
       /\ ProcessDeparture
          => aircraft_by_id[event_queue[1][3]].state = "parked"
       /\ \A id \in DOMAIN aircraft_by_id :
             LET before == aircraft_by_id[id].state
                 after == aircraft_by_id'[id].state
             IN  /\ \/ after = before
                    \/ /\ before = "scheduled" /\ after = "parked"
                       /\ ProcessArrival /\ event_queue[1][3] = id
                    \/ /\ before = "parked" /\ after = "departed"
                       /\ ProcessDeparture /\ event_queue[1][3] = id
                 /\ aircraft_by_id[id].arrival_time > simulation_duration
                    => /\ after = "scheduled"
                       /\ aircraft_by_id'[id].assigned_stand_type = None]_vars

\* at the end of a run one aircraft went through the whole lifecycle and
\* another, due after the horizon, never left 'scheduled'
C19_Witness ==
    /\ pc = "completed"
    /\ InState("departed") # {}
    /\ \E id \in InState("scheduled") :
          aircraft_by_id[id].arrival_time > simulation_duration

(* C20: internal consistency violations fail loudly: no queued event      *)
(* references an unknown aircraft identifier, and whenever plb_available  *)
(* leaves the range [0, plb_total] the run has stopped with an error at   *)
(* that step; no snapshot ever shows an out-of-range counter.             *)
C20_FailsLoudly ==
    /\ \A k \in DOMAIN event_queue : event_queue[k][3] \in DOMAIN aircraft_by_id
    /\ (plb_available < 0 \/ plb_available > plb_total) => pc = "error"
    /\ \A k \in DOMAIN model_reporters_data :
          /\ 0 <= model_reporters_data[k].plb_available
          /\ model_reporters_data[k].plb_available <= plb_total

\* the counter went above the total and the run stopped on the KeyError of
\* that same DEPARTURE
C20_Witness ==
    /\ pc = "error"
    /\ plb_available > plb_total

\* parked aircraft whose stand class is PLB
ParkedOnPlb ==
    {id \in parked_aircraft : aircraft_by_id[id].assigned_stand_type = "PLB"}

(* C21: for inputs with unique identifiers, plb_total - plb_available     *)
(* equals the number of parked aircraft whose stand class is PLB in every *)
(* state, hence in every snapshot, where plb_occupied + remote_occupied   *)
(* = total_parked; no PLB stand is counted as occupied without a parked   *)
(* PLB aircraft holding it.                                               *)
C21_OccupiedIsParkedOnPlb ==
    /\ plb_total - plb_available = Cardinality(ParkedOnPlb)
    /\ \A k \in DOMAIN model_reporters_data :
          LET r == model_reporters_data[k]
          IN  /\ r.plb_occupied + r.remote_occupied = r.total_parked
              /\ r.plb_occupied = plb_total - r.plb_available

\* a snapshot with PLB and REMOTE aircraft on the ground, after which a PLB
\* aircraft departed and its stand is free again
C21_Witness ==
    /\ \E k \in DOMAIN model_reporters_data :
          /\ model_reporters_data[k].plb_occupied >= 1
          /\ model_reporters_data[k].remote_occupied >= 1
    /\ \E k \in DOMAIN aircraft_results :
          aircraft_results[k].assigned_stand_type = "PLB"
    /\ plb_available = plb_total

\* the head of the queue is an event whose time has passed
HeadStale == event_queue # <<>> /\ event_queue[1][1] < current_time

\* no event is applied in this step: only the snapshot and the clock move
NothingApplied ==
    UNCHANGED <<event_queue, aircraft_by_id, parked_aircraft, plb_available,
                aircraft_results>>

NegativeArrival ==
    \E i \in DOMAIN aircraft_data : aircraft_data[i].arrival_time < 0

(* C22 (as stated): an event is applied only at the step where            *)
(* current_time equals its time; once the head of the queue holds an      *)
(* event whose time is less than current_time no event is applied for the *)
(* rest of the run, every snapshot shows total_parked = 0 and the         *)
(* per-aircraft output is empty.                                          *)
C22_StaleHeadMeansEmptyRun ==
    [][/\ (ProcessArrival \/ ProcessDeparture)
          => event_queue[1][1] = current_time
       /\ HeadStale
          => /\ NothingApplied
             /\ HeadStale'
             /\ aircraft_results' = <<>>
             /\ \A k \in DOMAIN model_reporters_data' :
                   model_reporters_data'[k].total_parked = 0]_vars

(* C22 (amended): an event is applied only at the step where current_time *)
(* equals its time; once the head of the queue holds an event whose time  *)
(* is less than current_time no event is applied for the rest of the run; *)
(* when the table has a negative arrival_time the head is stale from the  *)
(* start, every snapshot shows total_parked = 0 and the per-aircraft      *)
(* output is empty.                                                       *)
C22_StaleHeadBlocksQueue ==
    [][/\ (ProcessArrival \/ ProcessDeparture)
          => event_queue[1][1] = current_time
       /\ HeadStale
          => /\ NothingApplied
             /\ HeadStale'
       /\ NegativeArrival
          => /\ HeadStale
             /\ aircraft_results' = <<>>
             /\ \A k \in DOMAIN model_reporters_data' :
                   model_reporters_data'[k].total_parked = 0]_vars

\* a run completed behind an ARRIVAL timed before minute 0: an aircraft due
\* within the horizon never left 'scheduled'
C22_Witness ==
    /\ pc = "completed"
    /\ HeadStale
    /\ event_queue[1][1] < 0
    /\ Len(model_reporters_data) >= 2
    /\ \E id \in DOMAIN aircraft_by_id :
          /\ aircraft_by_id[id].arrival_time >= 0
          /\ aircraft_by_id[id].arrival_time <= simulation_duration
          /\ aircraft_by_id[id].state = "scheduled"

====
